---- MODULE Spec2Model ----
(***************************************************************************)
(* Model of the shelter-data acquisition pipeline of Safr                  *)
(* (shelterService: normalizer, cache store, remote client, orchestrator). *)
(*                                                                         *)
(* JavaScript values are modelled with uniform shapes so that they can be  *)
(* compared: optional scalars are strings with the distinguished values    *)
(* Undef ("undefined") and Null ("null"); optional objects carry a         *)
(* `present` flag; a value-or-exception is a record with an `ok` flag.     *)
(***************************************************************************)
EXTENDS Integers, Sequences, FiniteSets, TLC

\* ------------------------------------------------------------------ bounds
NumCalls == 1      \* call slots of the calling screen
MaxElems == 1     \* longest `elements` array an endpoint returns
MaxTicks == 1      \* how many times the clock advances
MaxStragglers == 0 \* writes of a failed save still in flight when a call starts
MaxNormLen == 2    \* longest `elements` array given to the normalizer alone
MaxSends == 2      \* how many messages the user sends in the chat

\* --------------------------------------------------------------- constants
API_TIMEOUT == 30000
CACHE_MAX_AGE == 24 * 60 * 60 * 1000
STORAGE_KEY == "@safr_shelters_cache"
STORAGE_TIMESTAMP_KEY == "@safr_shelters_timestamp"
OVERPASS_ENDPOINTS ==
    << "https://overpass-api.de/api/interpreter",
       "https://lz4.overpass-api.de/api/interpreter",
       "https://overpass.kumi.systems/api/interpreter" >>

Undef == "undefined"
Null == "null"

\* Date.now() of the initial state and the step of the clock (25 hours), ms.
T0 == 2 * CACHE_MAX_AGE
TickMs == CACHE_MAX_AGE + 60 * 60 * 1000

Calls == 1 .. NumCalls

\* ------------------------------------------------------------------- types
ShelterKeys == << "id", "type", "lat", "lng", "name", "capacity" >>

MkShelter(id, type, lat, lng, name, capacity) ==
    [id |-> id, type |-> type, lat |-> lat, lng |-> lng, name |-> name,
     capacity |-> capacity]

FALLBACK_SHELTERS ==
    << MkShelter("fallback_1", "hospital", "45.738205", "21.242398",
                 "Spitalul Judetean Timisoara", Undef),
       MkShelter("fallback_2", "hospital", "45.747479", "21.226180",
                 "Spitalul Municipal", Undef),
       MkShelter("fallback_3", "fire", "45.755800", "21.228900",
                 "Statie Pompieri Centru", Undef),
       MkShelter("fallback_4", "pharmacy", "45.753200", "21.225600",
                 "Farmacie Centrala", Undef),
       MkShelter("fallback_5", "police", "45.754100", "21.226800",
                 "Politia Municipiului Timisoara", Undef) >>

NoCenter == [present |-> FALSE, lat |-> Undef, lon |-> Undef]
NoTags == [present |-> FALSE, name |-> Undef, amenity |-> Undef,
           capacity |-> Undef]

\* An entry of the `elements` array: a JSON object shaped like
\* OverpassElement (id: a number, here a natural), or the JSON value null
\* (isNull).
MkElement(type, id, lat, lon, center, tags) ==
    [isNull |-> FALSE, type |-> type, id |-> id, lat |-> lat, lon |-> lon,
     center |-> center, tags |-> tags]

NullElement ==
    [isNull |-> TRUE, type |-> Undef, id |-> 0, lat |-> Undef,
     lon |-> Undef, center |-> NoCenter, tags |-> NoTags]

\* -------------------------------------------------------------- exceptions
Ok(v) == [ok |-> TRUE, val |-> v, err |-> Undef]
Throw(msg) == [ok |-> FALSE, val |-> <<>>, err |-> msg]

\* ------------------------------------------------------ normalizer (4.1)
\* variant: a known amenity is its own category
mapAmenityToTypeSameName(amenity) ==
    IF amenity \in {"hospital", "pharmacy", "fire_station", "police",
                    "shelter"}
    THEN amenity ELSE "unknown"

mapAmenityToType(amenity) ==
    CASE amenity = "hospital" -> "hospital"
      [] amenity = "pharmacy" -> "pharmacy"
      [] amenity = "fire_station" -> "fire"
      [] amenity = "police" -> "police"
      [] amenity = "shelter" -> "bunker"
      [] OTHER -> "unknown"

\* variant: a centroid is used whenever there is one
extractCoordinatesCenterFirst(element) ==
    IF element.center.present
    THEN [isNull |-> FALSE, lat |-> element.center.lat,
          lng |-> element.center.lon]
    ELSE IF element.type = "node" /\ element.lat # Undef
            /\ element.lon # Undef
    THEN [isNull |-> FALSE, lat |-> element.lat, lng |-> element.lon]
    ELSE [isNull |-> TRUE, lat |-> Undef, lng |-> Undef]

\* null when no coordinates resolve: [isNull |-> TRUE]
extractCoordinates(element) ==
    IF element.type = "node" /\ element.lat # Undef /\ element.lon # Undef
    THEN [isNull |-> FALSE, lat |-> element.lat, lng |-> element.lon]
    ELSE IF element.type \in {"way", "relation"} /\ element.center.present
    THEN [isNull |-> FALSE, lat |-> element.center.lat,
          lng |-> element.center.lon]
    ELSE [isNull |-> TRUE, lat |-> Undef, lng |-> Undef]

\* type.charAt(0).toUpperCase() + type.slice(1), over the Shelter types
Capitalize(type) ==
    CASE type = "hospital" -> "Hospital"
      [] type = "pharmacy" -> "Pharmacy"
      [] type = "fire" -> "Fire"
      [] type = "police" -> "Police"
      [] type = "bunker" -> "Bunker"
      [] OTHER -> "Unknown"

\* variant: only undefined and null count (`??` in place of `||`)
FalsyNullish(s) == s \in {Undef, Null}

Falsy(s) == s \in {Undef, Null, ""}

\* `${n}` of a non-negative integer: its decimal digits
DecimalDigit == << "0", "1", "2", "3", "4", "5", "6", "7", "8", "9" >>
RECURSIVE NumberInTemplate(_)
NumberInTemplate(n) ==
    IF n < 10 THEN DecimalDigit[n + 1]
    ELSE NumberInTemplate(n \div 10) \o DecimalDigit[(n % 10) + 1]

\* variant: the element type is left out of the id
ShelterIdNoType(element) == "osm_" \o NumberInTemplate(element.id)

\* id: `osm_${element.type}_${element.id}`
ShelterId(element) ==
    "osm_" \o element.type \o "_" \o NumberInTemplate(element.id)

\* Ok([isNull, shelter]) or the TypeError of reading a property of null
transformToShelter(element) ==
    IF element.isNull
    THEN Throw("Cannot read property 'type' of null")
    ELSE LET coords == extractCoordinates(element)
             type == mapAmenityToType(
                        IF element.tags.present THEN element.tags.amenity
                        ELSE Undef)
             tagName == IF element.tags.present THEN element.tags.name
                        ELSE Undef
             name == IF Falsy(tagName)
                     THEN Capitalize(type) \o " #"
                            \o NumberInTemplate(element.id)
                     ELSE tagName
         IN  IF coords.isNull
             THEN Ok([isNull |-> TRUE, shelter |-> FALLBACK_SHELTERS[1]])
             ELSE Ok([isNull |-> FALSE,
                      shelter |->
                        MkShelter(ShelterId(element), type, coords.lat, coords.lng, name,
                                  IF element.tags.present
                                  THEN element.tags.capacity ELSE Undef)])

\* data.elements.map(transformToShelter).filter(s => s !== null)
RECURSIVE MapFilterElements(_)
MapFilterElements(elements) ==
    IF elements = <<>> THEN Ok(<<>>)
    ELSE LET h == transformToShelter(Head(elements))
         IN  IF ~h.ok THEN Throw(h.err)
             ELSE LET t == MapFilterElements(Tail(elements))
                  IN  IF ~t.ok THEN Throw(t.err)
                      ELSE IF h.val.isNull THEN t
                      ELSE Ok(<<h.val.shelter>> \o t.val)

\* ------------------------------------------------- conversions (JSON, time)
\* Date.now().toString(): the decimal digits of a non-negative integer
RECURSIVE NumToString(_)
NumToString(n) ==
    IF n < 10 THEN <<n>> ELSE Append(NumToString(n \div 10), n % 10)

\* parseInt(str, 10) of a digit string
RECURSIVE ParseInt(_)
ParseInt(digits) ==
    IF Len(digits) = 0 THEN 0
    ELSE 10 * ParseInt(SubSeq(digits, 1, Len(digits) - 1))
         + digits[Len(digits)]

\* variant: the name property is left out of the serialization
RECURSIVE StringifyKeysNoName(_, _)
StringifyKeysNoName(shelter, keys) ==
    IF keys = <<>> THEN <<>>
    ELSE LET k == Head(keys)
             rest == StringifyKeysNoName(shelter, Tail(keys))
         IN  IF shelter[k] = Undef \/ k = "name" THEN rest
             ELSE <<<<k, shelter[k]>>>> \o rest

\* JSON.stringify of one Shelter: the key/value pairs in property order,
\* a property whose value is undefined being omitted
RECURSIVE StringifyKeys(_, _)
StringifyKeys(shelter, keys) ==
    IF keys = <<>> THEN <<>>
    ELSE LET k == Head(keys)
             rest == StringifyKeys(shelter, Tail(keys))
         IN  IF shelter[k] = Undef THEN rest ELSE <<<<k, shelter[k]>>>> \o rest

\* variant: serialization without the name property
JSONStringifyNoName(shelters) ==
    [kind |-> "json",
     items |-> [i \in 1 .. Len(shelters) |->
                   StringifyKeysNoName(shelters[i], ShelterKeys)]]

JSONStringify(shelters) ==
    [kind |-> "json",
     items |-> [i \in 1 .. Len(shelters) |->
                   StringifyKeys(shelters[i], ShelterKeys)]]

\* reading a property of a parsed object: undefined when the key is missing
ParsedProperty(pairs, k) ==
    IF \E i \in 1 .. Len(pairs) : pairs[i][1] = k
    THEN pairs[CHOOSE i \in 1 .. Len(pairs) : pairs[i][1] = k][2]
    ELSE Undef

\* JSON.parse of a stored payload; throws SyntaxError on an unparseable one
JSONParse(payload) ==
    IF payload.kind = "json"
    THEN Ok([i \in 1 .. Len(payload.items) |->
               [k \in {ShelterKeys[j] : j \in 1 .. Len(ShelterKeys)} |->
                   ParsedProperty(payload.items[i], k)]])
    ELSE Throw("JSON Parse error: Unexpected token")

\* ------------------------------------------------------ durable store (4.3)
AbsentItem == [kind |-> "absent", items |-> <<>>]
CorruptItem == [kind |-> "corrupt", items |-> <<>>]
NoTimestamp == [present |-> FALSE, digits |-> <<>>]
Timestamp(n) == [present |-> TRUE, digits |-> NumToString(n)]

NullList == [isNull |-> TRUE, list |-> <<>>]
SomeList(l) == [isNull |-> FALSE, list |-> l]

\* variant: a cache past the freshness window is reported as absent
LoadFromCacheTryExpire(st, readOk, nowv) ==
    IF ~readOk THEN Throw("Failed to read from storage")
    ELSE IF st.data.kind = "absent" THEN Ok(NullList)
    ELSE LET expired == st.ts.present
                        /\ nowv - ParseInt(st.ts.digits) > CACHE_MAX_AGE
             parsed == JSONParse(st.data)
         IN  IF ~parsed.ok THEN Throw(parsed.err)
             ELSE IF expired THEN Ok(NullList)
             ELSE Ok(SomeList(parsed.val))

\* body of the try block of loadFromCache; readOk is FALSE when a getItem
\* rejects (storage error)
LoadFromCacheTry(st, readOk, nowv) ==
    IF ~readOk THEN Throw("Failed to read from storage")
    ELSE IF st.data.kind = "absent" THEN Ok(NullList)
    ELSE LET expired == st.ts.present
                        /\ nowv - ParseInt(st.ts.digits) > CACHE_MAX_AGE
             parsed == JSONParse(st.data)
         IN  \* an expired cache is only logged, the stale list is still used
             IF ~parsed.ok THEN Throw(parsed.err)
             ELSE Ok(SomeList(parsed.val))

LoadFromCacheNoCatch(st, readOk, nowv) ==
    LoadFromCacheTry(st, readOk, nowv)

\* loadFromCache: every error is caught and turned into null
LoadFromCache(st, readOk, nowv) ==
    LET r == LoadFromCacheTry(st, readOk, nowv)
    IN  IF r.ok THEN r ELSE Ok(NullList)

\* the two setItem calls saveToCache issues (arguments evaluated at the call)
SaveWrites(c, shelters, nowv) ==
    { [op |-> "set", key |-> STORAGE_KEY, data |-> JSONStringify(shelters),
       ts |-> NoTimestamp, call |-> c, live |-> TRUE],
      [op |-> "set", key |-> STORAGE_TIMESTAMP_KEY, data |-> AbsentItem,
       ts |-> Timestamp(nowv), call |-> c, live |-> TRUE] }

\* one of the two removeItem calls clearShelterCache issues
RemoveItem(key) ==
    [op |-> "remove", key |-> key, data |-> AbsentItem, ts |-> NoTimestamp,
     call |-> 0, live |-> FALSE]

\* variant: setItem adds the new records to the stored ones
ApplyWriteMerge(st, w) ==
    IF w.key = STORAGE_KEY
    THEN [st EXCEPT !.data =
            IF w.op = "set"
            THEN [kind |-> "json", items |-> st.data.items \o w.data.items]
            ELSE AbsentItem]
    ELSE [st EXCEPT !.ts = IF w.op = "set" THEN w.ts ELSE NoTimestamp]

\* the store after one storage operation took effect
ApplyWrite(st, w) ==
    IF w.key = STORAGE_KEY
    THEN [st EXCEPT !.data = IF w.op = "set" THEN w.data ELSE AbsentItem]
    ELSE [st EXCEPT !.ts = IF w.op = "set" THEN w.ts ELSE NoTimestamp]

\* variant: a storage error is thrown on to the caller
SaveToCacheOutcomeRethrow(failed) ==
    IF failed THEN Throw("Failed to write to storage") ELSE Ok(<<>>)

\* outcome of `await saveToCache(...)`: the catch swallows a storage error
SaveToCacheOutcome(failed) == Ok(<<>>)

\* ------------------------------------------------ remote source client (4.2)
RawNodeA ==
    MkElement("node", 42, "45.75", "21.22", NoCenter,
              [present |-> TRUE, name |-> "City Hospital",
               amenity |-> "hospital", capacity |-> Undef])
RawWayA ==
    MkElement("way", 42, Undef, Undef,
              [present |-> TRUE, lat |-> "45.1", lon |-> "21.2"],
              [present |-> TRUE, name |-> Undef, amenity |-> "fire_station",
               capacity |-> Undef])
RawNodeNoCoords == MkElement("node", 7, Undef, Undef, NoCenter, NoTags)
RawOldNode ==
    MkElement("node", 1, "45.70", "21.30", NoCenter,
              [present |-> TRUE, name |-> Undef, amenity |-> "pharmacy",
               capacity |-> "20"])

\* entries an endpoint may put in its `elements` array
RawElements == {RawNodeA, RawNodeNoCoords, NullElement}

RECURSIVE SeqsUpTo(_, _)
SeqsUpTo(S, n) ==
    IF n = 0 THEN {<<>>}
    ELSE LET shorter == SeqsUpTo(S, n - 1)
         IN  shorter \cup {Append(q, x) : q \in shorter, x \in S}

\* what one axios.post may do: reject (timeout, transport error), or resolve
\* with a body that has no elements array, or with an elements array
EndpointOutcomes ==
    { [kind |-> "throw", message |-> m, hasElements |-> FALSE,
       elements |-> <<>>] :
         m \in {"timeout of 30000ms exceeded", "Network Error"} }
    \cup { [kind |-> "response", message |-> Undef, hasElements |-> FALSE,
            elements |-> <<>>] }
    \cup { [kind |-> "response", message |-> Undef, hasElements |-> TRUE,
            elements |-> e] : e \in SeqsUpTo(RawElements, MaxElems) }

NoError == [isNull |-> TRUE, message |-> Undef]
SomeError(m) == [isNull |-> FALSE, message |-> m]

\* one iteration of the endpoint loop: "return" the normalized list,
\* "continue" (no elements array), or "catch" (the attempt or the mapping threw)
EndpointAttempt(outcome) ==
    IF outcome.kind = "throw"
    THEN [next |-> "catch", shelters |-> <<>>, message |-> outcome.message]
    ELSE IF ~outcome.hasElements
    THEN [next |-> "continue", shelters |-> <<>>, message |-> Undef]
    ELSE LET r == MapFilterElements(outcome.elements)
         IN  IF r.ok
             THEN [next |-> "return", shelters |-> r.val, message |-> Undef]
             ELSE [next |-> "catch", shelters |-> <<>>, message |-> r.err]

FetchPending == [state |-> "pending", shelters |-> <<>>, message |-> Undef]
FetchOk(l) == [state |-> "ok", shelters |-> l, message |-> Undef]
FetchErr(m) == [state |-> "err", shelters |-> <<>>, message |-> m]

\* variant: the error of the last attempt is dropped
AllEndpointsFailedGeneric(lastError) ==
    FetchErr("All Overpass API endpoints failed")

\* throw lastError || new Error('All Overpass API endpoints failed')
AllEndpointsFailed(lastError) ==
    IF lastError.isNull THEN FetchErr("All Overpass API endpoints failed")
    ELSE FetchErr(lastError.message)

\* ------------------------------------------------------- orchestrator (4.4)
NoResult ==
    [state |-> "pending", shelters |-> <<>>, source |-> Undef,
     error |-> Undef]
Resolved(shelters, source, error) ==
    [state |-> "resolved", shelters |-> shelters, source |-> source,
     error |-> error]
Rejected(msg) ==
    [state |-> "rejected", shelters |-> <<>>, source |-> Undef,
     error |-> msg]

\* variant: the length test is dropped
ApiHasDataAlways(apiShelters) == TRUE

ApiHasData(apiShelters) == Len(apiShelters) > 0

\* cachedShelters && cachedShelters.length > 0
CacheUsable(cached) == ~cached.isNull /\ Len(cached.list) > 0

\* variant: the diagnostic of refreshShelters is used
GetFallbackRefreshNote ==
    Resolved(FALLBACK_SHELTERS, "fallback", "Refresh failed")

GetFallback ==
    Resolved(FALLBACK_SHELTERS, "fallback",
             "No network connection and no cached data available")

\* variant: the cached list is returned without the usability test
GetSheltersNoDataAnyCache(cached, message) ==
    IF message = Undef
    THEN Resolved(cached.list, "cache",
                  "API returned empty results, using cached data")
    ELSE Resolved(cached.list, "cache", "API unavailable: " \o message)

\* variant: the catch block goes straight to the bundled list
GetSheltersNoDataSkipCache(cached, message) ==
    IF CacheUsable(cached) /\ message = Undef
    THEN Resolved(cached.list, "cache",
                  "API returned empty results, using cached data")
    ELSE GetFallback

\* variant: the catch block reuses the note of the empty-result branch
GetSheltersNoDataOneNote(cached, message) ==
    IF CacheUsable(cached)
    THEN Resolved(cached.list, "cache",
                  "API returned empty results, using cached data")
    ELSE GetFallback

\* getShelters once the fetch returned no record (message = Undef) or an
\* error was caught by its catch block (message = the error's message)
GetSheltersNoData(cached, message) ==
    IF CacheUsable(cached)
    THEN IF message = Undef
         THEN Resolved(cached.list, "cache",
                       "API returned empty results, using cached data")
         ELSE Resolved(cached.list, "cache", "API unavailable: " \o message)
    ELSE GetFallback

\* variant: the cached list is returned without a note
RefreshEmptyResultNoNote(cached) ==
    IF CacheUsable(cached)
    THEN Resolved(cached.list, "cache", Undef)
    ELSE Resolved(FALLBACK_SHELTERS, "fallback", "Refresh failed")

\* refreshShelters, try block, after the fetch returned no record
RefreshEmptyResult(cached) ==
    IF CacheUsable(cached)
    THEN Resolved(cached.list, "cache", "Refresh returned empty results")
    ELSE Resolved(FALLBACK_SHELTERS, "fallback", "Refresh failed")

\* variant: the bundled list is returned without the error message
RefreshCatchResultNoMessage(cached, message) ==
    IF CacheUsable(cached)
    THEN Resolved(cached.list, "cache", "Refresh failed: " \o message)
    ELSE Resolved(FALLBACK_SHELTERS, "fallback", "Refresh failed")

\* variant: the bundled list is returned under the cache tag
RefreshCatchResultBundled(cached, message) ==
    IF CacheUsable(cached)
    THEN Resolved(FALLBACK_SHELTERS, "cache", "Refresh failed: " \o message)
    ELSE Resolved(FALLBACK_SHELTERS, "fallback", "Refresh failed: " \o message)

\* refreshShelters, catch block
RefreshCatchResult(cached, message) ==
    IF CacheUsable(cached)
    THEN Resolved(cached.list, "cache", "Refresh failed: " \o message)
    ELSE Resolved(FALLBACK_SHELTERS, "fallback",
                  "Refresh failed: " \o message)

\* ------------------------------------------------------------------- state
VARIABLES
    calls,      \* per call slot: the position and the locals of the call
    store,      \* AsyncStorage: the item under each of the two keys
    pending,    \* storage writes issued and not yet settled
    now,        \* Date.now()
    norm,       \* the normalizer at work on one `elements` array
    screen,     \* MapScreen: mounted or not, and its shelter state
    filters,    \* MapScreen: the filter menu and the active categories
    download,   \* downloadModel: the model directory and the call at work
    chat        \* ChatScreen: the conversation and the sends at work

vars ==
    << calls, store, pending, now, norm, screen, filters, download, chat >>

\* what neither the shelter service nor the shelter state of the screen
\* touches
apart == << filters, download, chat >>

\* what the shelter service leaves alone
aside == << norm, screen, apart >>

\* marks an endpoint attempt that failed the structural validation
InvalidResponse == "Invalid response"

IdleCall ==
    [kind |-> "none", pc |-> "idle", cached |-> NullList, ep |-> 1,
     lastError |-> NoError, fetch |-> FetchPending, contacted |-> <<>>,
     errMsg |-> Undef, nLoads |-> 0, nSaves |-> 0, landed |-> 0,
     saveFailed |-> FALSE, result |-> NoResult,
     \* observations kept for the properties, never read by the call:
     \*   firstValid  index of the first endpoint that answered with an
     \*               elements array in this call, 0 when none did so far
     \*   foreign     a write left in flight by an earlier failed save took
     \*               effect while this call was running
     \*   failures    what each failed endpoint attempt of the fetch was:
     \*               the message of the error it threw, or InvalidResponse
     \*               (kept until the caller of fetchFromAPI resumes)
     \*   readFailed  a getItem of this call's cache load rejected
     firstValid |-> 0, foreign |-> FALSE, failures |-> <<>>,
     readFailed |-> FALSE]

\* MapScreen before it is mounted: sheltersLoading starts as true,
\* sheltersSource as null
ScreenOff ==
    [mounted |-> "no", sheltersLoading |-> TRUE, sheltersSource |-> Null]

\* the categories of toggleAllFilters, which are those of the filter menu
allTypes == << "hospital", "pharmacy", "fire", "police", "bunker" >>

\* useState(false) for showFilterMenu and the Set of the five categories,
\* in insertion order, for activeFilters; `op` and `arg` record the handler
\* that ran last and its argument and are never read by the component
FiltersInit ==
    [showFilterMenu |-> FALSE, activeFilters |-> allTypes,
     op |-> "none", arg |-> Null]

\* api/model.ts
MODEL_VERSION == "1.0.0"

\* the version an earlier release of the application recorded
EarlierVersion == "0.9.0"

\* the file at destPath holds nothing ("absent"), the model as a download
\* with status 200 wrote it ("complete"), the same as an earlier release
\* wrote it ("earlier"), the start of the model ("partial"), or the body of
\* a response with another status ("body")

\* no call of downloadModel yet, on a fresh installation; `downloaded` and
\* `leftBehind` are observations the function never reads: whether this
\* call reached downloadFile, and whether some download so far left a
\* partial file or an error body at destPath
DownloadIdle ==
    [pc |-> "idle", destPath |-> "absent", versionFile |-> Undef,
     hasVersion |-> FALSE, currentVersion |-> Null, fileExists |-> FALSE,
     statusCode |-> 0, result |-> NoResult, downloaded |-> FALSE,
     leftBehind |-> FALSE]

\* ChatScreen
INITIAL_CONVERSATION ==
    << [role |-> "system", content |-> "system prompt", turn |-> 0] >>

\* the handlers of handleSendMessage that can be at work at once: the Send
\* button is disabled while isGenerating, onSubmitEditing is not
Senders == {1, 2}

SenderIdle == [pc |-> "idle", userMessage |-> "", turn |-> 0]

\* ChatScreen with the chat model loaded (context set) and the embedding
\* model and knowledge base still loading; `turn` numbers the sends and
\* is kept for the properties only
ChatInit ==
    [conversation |-> INITIAL_CONVERSATION, isGenerating |-> FALSE,
     rag |-> FALSE, alert |-> Null, sends |-> 0,
     sender |-> [h \in Senders |-> SenderIdle]]

\* the initial state of what `apart` holds
ApartInit ==
    /\ filters = FiltersInit
    /\ download = DownloadIdle
    /\ chat = ChatInit

\* the normalizer at rest
NormIdle ==
    [pc |-> "idle", elements |-> <<>>, mapped |-> <<>>, result |-> Ok(<<>>),
     reread |-> NullList]

\* a list saved by an earlier run of the application
OldShelters == MapFilterElements(<<RawOldNode>>).val

InitStores ==
    { [data |-> d, ts |-> t] :
        d \in {AbsentItem, CorruptItem, JSONStringify(OldShelters)},
        t \in {NoTimestamp, Timestamp(T0 - 1000)} }

Init ==
    /\ calls = [c \in Calls |-> IdleCall]
    /\ store \in InitStores
    /\ pending = {}
    /\ now = T0
    /\ norm = NormIdle
    /\ screen = ScreenOff
    /\ ApartInit

\* ----------------------------------------------------------------- actions
\* the map screen has one orchestrated call in flight at a time: the refresh
\* control is shown only while no call is loading
Exclusive(c) == \A d \in Calls \ {c} : calls[d].pc = "idle"

\* a call that starts takes the lowest of the idle slots
LowestIdle(c) == \A d \in Calls : calls[d].pc = "idle" => c <= d

\* the caller invokes getShelters(): the cache load is issued
StartGet(c) ==
    /\ calls[c].pc = "idle"
    /\ Exclusive(c)
    /\ LowestIdle(c)
    /\ Cardinality(pending) <= MaxStragglers
    /\ calls' = [calls EXCEPT ![c] =
                    [IdleCall EXCEPT !.kind = "get", !.pc = "load"]]
    /\ UNCHANGED << store, pending, now, aside >>

\* the caller invokes refreshShelters(): the fetch is issued
StartRefresh(c) ==
    /\ calls[c].pc = "idle"
    /\ Exclusive(c)
    /\ LowestIdle(c)
    /\ Cardinality(pending) <= MaxStragglers
    /\ calls' = [calls EXCEPT ![c] =
                    [IdleCall EXCEPT !.kind = "refresh", !.pc = "fetch"]]
    /\ UNCHANGED << store, pending, now, aside >>

\* getShelters step 1: `cachedShelters = await loadFromCache()` in try/catch
GetLoad(c) ==
    /\ calls[c].pc = "load"
    /\ \E readOk \in BOOLEAN :
         LET r == LoadFromCache(store, readOk, now)
         IN  calls' = [calls EXCEPT
                         ![c].cached = IF r.ok THEN r.val ELSE NullList,
                         ![c].nLoads = @ + 1,
                         ![c].readFailed = ~readOk,
                         ![c].pc = "fetch"]
    /\ UNCHANGED << store, pending, now, aside >>

\* variant: a failed endpoint is tried again
NextEndpointRetry(i) == i

\* `for (const endpoint of OVERPASS_ENDPOINTS)`: on to the next entry
NextEndpoint(i) == i + 1

\* fetchFromAPI: one iteration of the loop over OVERPASS_ENDPOINTS, the
\* endpoint doing one of `outcomes`
FetchWith(c, outcomes) ==
    /\ \E outcome \in outcomes :
         LET a == EndpointAttempt(outcome)
             i == calls[c].ep
             lastError == IF a.next = "catch" THEN SomeError(a.message)
                          ELSE calls[c].lastError
             seen == Append(calls[c].contacted, OVERPASS_ENDPOINTS[i])
             valid == IF calls[c].firstValid = 0 /\ outcome.hasElements
                      THEN i ELSE calls[c].firstValid
             failed == Append(calls[c].failures,
                              IF a.next = "catch" THEN a.message
                              ELSE InvalidResponse)
         IN  calls' =
               IF a.next = "return"
               THEN [calls EXCEPT ![c].contacted = seen,
                                  ![c].firstValid = valid,
                                  ![c].ep = 1,
                                  ![c].lastError = NoError,
                                  ![c].fetch = FetchOk(a.shelters),
                                  ![c].pc = "fetched"]
               ELSE IF i = Len(OVERPASS_ENDPOINTS)
               THEN [calls EXCEPT ![c].contacted = seen,
                                  ![c].firstValid = valid,
                                  ![c].failures = failed,
                                  ![c].ep = 1,
                                  ![c].lastError = NoError,
                                  ![c].fetch = AllEndpointsFailed(lastError),
                                  ![c].pc = "fetched"]
               ELSE [calls EXCEPT ![c].contacted = seen,
                                  ![c].firstValid = valid,
                                  ![c].failures = failed,
                                  ![c].lastError = lastError,
                                  ![c].ep = NextEndpoint(i)]
    /\ UNCHANGED << store, pending, now, aside >>

\* the endpoint may do anything an endpoint can do
FetchAttempt(c) ==
    /\ calls[c].pc = "fetch"
    /\ FetchWith(c, EndpointOutcomes)

\* `await saveToCache(apiShelters)`: both setItem calls are issued
IssueSave(c) ==
    /\ calls' = [calls EXCEPT ![c].pc = "saving", ![c].nSaves = @ + 1,
                             ![c].failures = <<>>]
    /\ pending' = pending \cup SaveWrites(c, calls[c].fetch.shelters, now)

\* getShelters after `await fetchFromAPI()`
GetSheltersDecide(c) ==
    /\ calls[c].pc = "fetched"
    /\ calls[c].kind = "get"
    /\ IF calls[c].fetch.state = "ok" /\ ApiHasData(calls[c].fetch.shelters)
       THEN IssueSave(c)
       ELSE /\ calls' = [calls EXCEPT
                           ![c].result =
                              GetSheltersNoData(calls[c].cached,
                                                calls[c].fetch.message),
                           ![c].failures = <<>>,
                           ![c].pc = "done"]
            /\ UNCHANGED pending
    /\ UNCHANGED << store, now, aside >>

\* refreshShelters after `await fetchFromAPI()`
RefreshSheltersDecide(c) ==
    /\ calls[c].pc = "fetched"
    /\ calls[c].kind = "refresh"
    /\ IF calls[c].fetch.state = "ok" /\ ApiHasData(calls[c].fetch.shelters)
       THEN IssueSave(c)
       ELSE /\ calls' =
                 IF calls[c].fetch.state = "ok"
                 THEN [calls EXCEPT ![c].pc = "reload",
                                    ![c].failures = <<>>]
                 ELSE [calls EXCEPT ![c].pc = "reloadCatch",
                                    ![c].failures = <<>>,
                                    ![c].errMsg = calls[c].fetch.message]
            /\ UNCHANGED pending
    /\ UNCHANGED << store, now, aside >>

\* refreshShelters: `await loadFromCache()` of the try block ("reload") or of
\* the catch block ("reloadCatch"), and the return that follows it
RefreshReload(c) ==
    /\ calls[c].pc \in {"reload", "reloadCatch"}
    /\ \E readOk \in BOOLEAN :
         LET r == LoadFromCache(store, readOk, now)
             loaded == [calls EXCEPT ![c].nLoads = @ + 1,
                                     ![c].readFailed = ~readOk]
         IN  calls' =
               IF ~r.ok
               THEN IF calls[c].pc = "reload"
                    THEN [loaded EXCEPT ![c].pc = "reloadCatch",
                                        ![c].errMsg = r.err]
                    ELSE [loaded EXCEPT ![c].result = Rejected(r.err),
                                        ![c].pc = "done"]
               ELSE [loaded EXCEPT
                       ![c].cached = r.val,
                       ![c].result =
                          IF calls[c].pc = "reload"
                          THEN RefreshEmptyResult(r.val)
                          ELSE RefreshCatchResult(r.val, calls[c].errMsg),
                       ![c].pc = "done"]
    /\ UNCHANGED << store, pending, now, aside >>

\* AsyncStorage settles one issued setItem/removeItem: it takes effect, or it
\* rejects and leaves the item as it was
StorageWriteSettles(w, ok) ==
    /\ w \in pending
    /\ pending' = pending \ {w}
    /\ store' = IF ok THEN ApplyWrite(store, w) ELSE store
    /\ calls' = IF w.live
                THEN [calls EXCEPT
                        ![w.call].landed = IF ok THEN @ + 1 ELSE @,
                        ![w.call].saveFailed = @ \/ ~ok]
                ELSE [c \in DOMAIN calls |->
                        IF ok /\ calls[c].pc # "idle"
                        THEN [calls[c] EXCEPT !.foreign = TRUE]
                        ELSE calls[c]]
    /\ UNCHANGED << now, aside >>

\* the Promise.all of saveToCache settles (both writes done, or one
\* rejected) and the call that awaited it returns
SaveSettles(c) ==
    /\ calls[c].pc = "saving"
    /\ calls[c].saveFailed \/ calls[c].landed = 2
    /\ LET r == SaveToCacheOutcome(calls[c].saveFailed)
       IN  calls' =
             IF r.ok
             THEN [calls EXCEPT
                     ![c].result = Resolved(calls[c].fetch.shelters, "api",
                                            Undef),
                     ![c].pc = "done"]
             ELSE IF calls[c].kind = "get"
             THEN [calls EXCEPT
                     ![c].result = GetSheltersNoData(calls[c].cached, r.err),
                     ![c].pc = "done"]
             ELSE [calls EXCEPT ![c].pc = "reloadCatch", ![c].errMsg = r.err]
    /\ pending' = { IF w.call = c /\ w.live
                    THEN [w EXCEPT !.live = FALSE, !.call = 0]
                    ELSE w : w \in pending }
    /\ UNCHANGED << store, now, aside >>

\* the caller's await resumes with the settled promise; the call is over
TakeResult(c) ==
    /\ calls[c].pc = "done"
    /\ calls' = [calls EXCEPT ![c] = IdleCall]
    /\ UNCHANGED << store, pending, now, aside >>

\* clearShelterCache(), awaited by a caller with no call in flight: each of
\* the two removeItem calls takes effect or rejects; a rejection is swallowed
ClearShelterCache ==
    /\ \A c \in Calls : calls[c].pc = "idle"
    /\ \E okData, okTs \in BOOLEAN :
         LET s1 == IF okData THEN ApplyWrite(store, RemoveItem(STORAGE_KEY))
                   ELSE store
         IN  store' = IF okTs
                      THEN ApplyWrite(s1, RemoveItem(STORAGE_TIMESTAMP_KEY))
                      ELSE s1
    /\ UNCHANGED << calls, pending, now, aside >>

\* time passes
Tick ==
    /\ now < T0 + MaxTicks * TickMs
    /\ now' = now + TickMs
    /\ UNCHANGED << calls, store, pending, aside >>

Next ==
    \/ \E c \in Calls : StartGet(c)
    \/ \E c \in Calls : StartRefresh(c)
    \/ \E c \in Calls : GetLoad(c)
    \/ \E c \in Calls : FetchAttempt(c)
    \/ \E c \in Calls : GetSheltersDecide(c)
    \/ \E c \in Calls : RefreshSheltersDecide(c)
    \/ \E c \in Calls : RefreshReload(c)
    \/ \E c \in Calls : SaveSettles(c)
    \/ \E c \in Calls : TakeResult(c)
    \/ \E w \in pending, ok \in BOOLEAN : StorageWriteSettles(w, ok)
    \/ ClearShelterCache
    \/ Tick

Spec == Init /\ [][Next]_vars

\* the steps of one call: each awaited promise (getItem, axios.post with its
\* 30 s timeout, the Promise.all of the setItem calls) settles and the call
\* resumes
CallStep(c) ==
    \/ GetLoad(c)
    \/ FetchAttempt(c)
    \/ GetSheltersDecide(c)
    \/ RefreshSheltersDecide(c)
    \/ RefreshReload(c)
    \/ SaveSettles(c)

\* AsyncStorage settles every write it was handed
StorageStep == \E w \in pending, ok \in BOOLEAN : StorageWriteSettles(w, ok)

\* some awaited promise settles
Settle == StorageStep \/ \E c \in Calls : CallStep(c)

\* the program with awaited promises settling: as long as one is awaited,
\* one eventually settles
SpecFair == Spec /\ WF_vars(Settle)

\* ------------------------------------------------ two overlapping calls
\* getShelters and refreshShelters are plain async functions: nothing in
\* shelterService keeps a second call from starting while one is running
ConcCalls == {1, 2}

\* each endpoint answers with one record, the node or the way, or the
\* request fails
ConcOutcomes ==
    { [kind |-> "response", message |-> Undef, hasElements |-> TRUE,
       elements |-> << e >>] : e \in {RawNodeA, RawWayA} }
    \cup { [kind |-> "throw", message |-> "Network Error",
            hasElements |-> FALSE, elements |-> <<>>] }

InitConc ==
    /\ calls = [c \in ConcCalls |-> IdleCall]
    /\ store = [data |-> JSONStringify(OldShelters),
                ts |-> Timestamp(T0 - 1000)]
    /\ pending = {}
    /\ now = T0
    /\ norm = NormIdle
    /\ screen = ScreenOff
    /\ ApartInit

ConcStartGet(c) ==
    /\ calls[c].pc = "idle"
    /\ calls' = [calls EXCEPT ![c] =
                    [IdleCall EXCEPT !.kind = "get", !.pc = "load"]]
    /\ UNCHANGED << store, pending, now, aside >>

ConcStartRefresh(c) ==
    /\ calls[c].pc = "idle"
    /\ calls' = [calls EXCEPT ![c] =
                    [IdleCall EXCEPT !.kind = "refresh", !.pc = "fetch"]]
    /\ UNCHANGED << store, pending, now, aside >>

ConcFetch(c) ==
    /\ calls[c].pc = "fetch"
    /\ FetchWith(c, ConcOutcomes)

NextConc ==
    \/ \E c \in ConcCalls : ConcStartGet(c)
    \/ \E c \in ConcCalls : ConcStartRefresh(c)
    \/ \E c \in ConcCalls : GetLoad(c)
    \/ \E c \in ConcCalls : ConcFetch(c)
    \/ \E c \in ConcCalls : GetSheltersDecide(c)
    \/ \E c \in ConcCalls : RefreshSheltersDecide(c)
    \/ \E c \in ConcCalls : RefreshReload(c)
    \/ \E c \in ConcCalls : SaveSettles(c)
    \/ \E w \in pending, ok \in BOOLEAN : StorageWriteSettles(w, ok)

SpecConc == InitConc /\ [][NextConc]_vars

\* ------------------------------- calls after a save that left a write
\* saveToCache returns at the first rejected setItem; the other setItem is
\* then still in flight when the next call of the same caller starts
LateCalls == {1}

\* the endpoint answers with the node, or the request fails
LateOutcomes ==
    { [kind |-> "response", message |-> Undef, hasElements |-> TRUE,
       elements |-> << RawNodeA >>],
      [kind |-> "throw", message |-> "Network Error", hasElements |-> FALSE,
       elements |-> <<>>] }

\* a fresh installation
InitLate ==
    /\ calls = [c \in LateCalls |-> IdleCall]
    /\ store = [data |-> AbsentItem, ts |-> NoTimestamp]
    /\ pending = {}
    /\ now = T0
    /\ norm = NormIdle
    /\ screen = ScreenOff
    /\ ApartInit

\* a call that starts also records, for the properties, the two stored
\* items as they are at that moment (store0)
LateStartGet(c) ==
    /\ calls[c].pc = "idle"
    /\ calls' = [calls EXCEPT ![c] =
                    [IdleCall EXCEPT !.kind = "get", !.pc = "load"]
                      @@ [store0 |-> store]]
    /\ UNCHANGED << store, pending, now, aside >>

LateStartRefresh(c) ==
    /\ calls[c].pc = "idle"
    /\ calls' = [calls EXCEPT ![c] =
                    [IdleCall EXCEPT !.kind = "refresh", !.pc = "fetch"]
                      @@ [store0 |-> store]]
    /\ UNCHANGED << store, pending, now, aside >>

LateFetch(c) ==
    /\ calls[c].pc = "fetch"
    /\ FetchWith(c, LateOutcomes)

NextLate ==
    \/ \E c \in LateCalls : LateStartGet(c)
    \/ \E c \in LateCalls : LateStartRefresh(c)
    \/ \E c \in LateCalls : GetLoad(c)
    \/ \E c \in LateCalls : LateFetch(c)
    \/ \E c \in LateCalls : GetSheltersDecide(c)
    \/ \E c \in LateCalls : RefreshSheltersDecide(c)
    \/ \E c \in LateCalls : RefreshReload(c)
    \/ \E c \in LateCalls : SaveSettles(c)
    \/ \E c \in LateCalls : TakeResult(c)
    \/ \E w \in pending, ok \in BOOLEAN : StorageWriteSettles(w, ok)

SpecLate == InitLate /\ [][NextLate]_vars

\* ------------------------------------------------------- the map screen
\* call slots the screen may use: if its controls allowed it, a second
\* call could start while one is running
ScreenCalls == {1, 2}

\* variant: the refresh control is shown also while loading
RefreshControlShownAlways(scr) == scr.mounted = "yes"

\* the badge is a TouchableOpacity with onPress only when sheltersLoading
\* is false
RefreshControlShown(scr) == scr.mounted = "yes" /\ ~scr.sheltersLoading

InitScreen ==
    /\ calls = [c \in ScreenCalls |-> IdleCall]
    /\ store \in InitStores
    /\ pending = {}
    /\ now = T0
    /\ norm = NormIdle
    /\ screen = ScreenOff
    /\ ApartInit

\* the tab is opened: the component mounts and its effect runs
\* loadShelters up to `await getShelters()`
ScreenMount(c) ==
    /\ screen.mounted = "no"
    /\ calls[c].pc = "idle"
    /\ screen' = [screen EXCEPT !.mounted = "yes", !.sheltersLoading = TRUE]
    /\ calls' = [calls EXCEPT ![c] =
                    [IdleCall EXCEPT !.kind = "get", !.pc = "load"]]
    /\ UNCHANGED << store, pending, now, norm, apart >>

\* loadShelters resumes after `await getShelters()`
ScreenLoadDone(c) ==
    /\ calls[c].pc = "done"
    /\ calls[c].kind = "get"
    /\ screen' =
         IF screen.mounted # "yes" THEN screen
         ELSE [screen EXCEPT
                 !.sheltersSource =
                    IF calls[c].result.state = "resolved"
                    THEN calls[c].result.source ELSE @,
                 !.sheltersLoading = FALSE]
    /\ calls' = [calls EXCEPT ![c] = IdleCall]
    /\ UNCHANGED << store, pending, now, norm, apart >>

\* the badge is pressed: handleRefreshShelters runs up to
\* `await refreshShelters()`
ScreenRefreshTap(c) ==
    /\ RefreshControlShown(screen)
    /\ calls[c].pc = "idle"
    /\ screen' = [screen EXCEPT !.sheltersLoading = TRUE]
    /\ calls' = [calls EXCEPT ![c] =
                    [IdleCall EXCEPT !.kind = "refresh", !.pc = "fetch"]]
    /\ UNCHANGED << store, pending, now, norm, apart >>

\* handleRefreshShelters resumes after `await refreshShelters()`; on an
\* unmounted component the state updates do nothing
ScreenRefreshDone(c) ==
    /\ calls[c].pc = "done"
    /\ calls[c].kind = "refresh"
    /\ screen' =
         IF screen.mounted # "yes" THEN screen
         ELSE [screen EXCEPT
                 !.sheltersSource =
                    IF calls[c].result.state = "resolved"
                    THEN calls[c].result.source ELSE @,
                 !.sheltersLoading = FALSE]
    /\ calls' = [calls EXCEPT ![c] = IdleCall]
    /\ UNCHANGED << store, pending, now, norm, apart >>

\* the component unmounts: the cleanup of the effect clears isMounted
ScreenUnmount ==
    /\ screen.mounted = "yes"
    /\ screen' = [screen EXCEPT !.mounted = "gone"]
    /\ UNCHANGED << calls, store, pending, now, norm, apart >>

NextScreen ==
    \/ \E c \in ScreenCalls : ScreenMount(c)
    \/ \E c \in ScreenCalls : ScreenLoadDone(c)
    \/ \E c \in ScreenCalls : ScreenRefreshTap(c)
    \/ \E c \in ScreenCalls : ScreenRefreshDone(c)
    \/ ScreenUnmount
    \/ \E c \in ScreenCalls : GetLoad(c)
    \/ \E c \in ScreenCalls : FetchAttempt(c)
    \/ \E c \in ScreenCalls : GetSheltersDecide(c)
    \/ \E c \in ScreenCalls : RefreshSheltersDecide(c)
    \/ \E c \in ScreenCalls : RefreshReload(c)
    \/ \E c \in ScreenCalls : SaveSettles(c)
    \/ \E w \in pending, ok \in BOOLEAN : StorageWriteSettles(w, ok)

SpecScreen == InitScreen /\ [][NextScreen]_vars

\* ------------------------------------------- the normalizer on its own
\* The coordinates an Overpass element may carry: those of a node (both,
\* one, none), the centroid of a way or relation (complete, without lat,
\* none), both at once.
NormCoordinates ==
    { [lat |-> "45.75", lon |-> "21.22", center |-> NoCenter],
      [lat |-> "45.75", lon |-> "21.22",
       center |-> [present |-> TRUE, lat |-> "45.1", lon |-> "21.2"]],
      [lat |-> "45.75", lon |-> Undef, center |-> NoCenter],
      [lat |-> Undef, lon |-> Undef, center |-> NoCenter],
      [lat |-> Undef, lon |-> Undef,
       center |-> [present |-> TRUE, lat |-> "45.1", lon |-> "21.2"]],
      [lat |-> Undef, lon |-> Undef,
       center |-> [present |-> TRUE, lat |-> Undef, lon |-> "21.2"]] }

\* The tags an element may carry: each amenity the dictionary knows, one
\* it does not know, none; a name, an empty name, none.
NormTags ==
    { [present |-> TRUE, name |-> n, amenity |-> a, capacity |-> Undef] :
        n \in {"City Hospital", "", Undef},
        a \in {"hospital", "pharmacy", "fire_station", "police", "shelter",
               "school", Undef} }

\* Entries of an `elements` array: untagged elements of each type with two
\* numeric ids and each form of coordinates, the way 42 with each form of
\* tags, and null.
NormElements ==
    { MkElement(t, i, co.lat, co.lon, co.center, NoTags) :
        t \in {"node", "way", "relation"}, i \in {7, 42},
        co \in NormCoordinates }
    \cup { MkElement("way", 42, Undef, Undef,
                     [present |-> TRUE, lat |-> "45.1", lon |-> "21.2"], tg) :
             tg \in NormTags }
    \cup {NullElement}

\* data.elements.map(transformToShelter)
MapElements(elements) ==
    [i \in 1 .. Len(elements) |-> transformToShelter(elements[i])]

InitNorm ==
    /\ calls = [c \in Calls |-> IdleCall]
    /\ store = [data |-> AbsentItem, ts |-> NoTimestamp]
    /\ pending = {}
    /\ now = T0
    /\ \E e \in SeqsUpTo(NormElements, MaxNormLen) :
          norm = [NormIdle EXCEPT !.pc = "raw", !.elements = e]
    /\ screen = ScreenOff
    /\ ApartInit

\* fetchFromAPI maps and filters the elements of a valid response
NormalizeElements ==
    /\ norm.pc = "raw"
    /\ LET r == MapFilterElements(norm.elements)
       IN  norm' = [norm EXCEPT
                      !.pc = "mapped",
                      !.mapped = IF r.ok THEN MapElements(norm.elements)
                                 ELSE << >>,
                      !.result = r]
    /\ UNCHANGED << calls, store, pending, now, screen, apart >>

\* the caller of fetchFromAPI saves a non-empty list: both setItem calls
\* take effect
PersistShelters ==
    /\ norm.pc = "mapped"
    /\ norm.result.ok
    /\ ApiHasData(norm.result.val)
    /\ store' = [data |-> JSONStringify(norm.result.val),
                 ts |-> Timestamp(now)]
    /\ norm' = [norm EXCEPT !.pc = "saved"]
    /\ UNCHANGED << calls, pending, now, screen, apart >>

\* a later call loads what was saved
ReloadShelters ==
    /\ norm.pc = "saved"
    /\ norm' = [norm EXCEPT !.pc = "reread",
                            !.reread = LoadFromCache(store, TRUE, now).val]
    /\ UNCHANGED << calls, store, pending, now, screen, apart >>

NextNorm ==
    \/ NormalizeElements
    \/ PersistShelters
    \/ ReloadShelters

SpecNorm == InitNorm /\ [][NextNorm]_vars

\* ------------------------------------------ the filter menu of MapScreen
\* a JavaScript Set as the sequence of its members in insertion order
SetHas(set, x) == \E i \in 1 .. Len(set) : set[i] = x
SetDelete(set, x) == SelectSeq(set, LAMBDA y : y # x)
SetAdd(set, x) == IF SetHas(set, x) THEN set ELSE Append(set, x)

\* variant: the last active category can be removed
toggleFilterUpdaterUnguarded(prev, type) ==
    IF SetHas(prev, type) THEN SetDelete(prev, type) ELSE SetAdd(prev, type)

\* the updater that toggleFilter hands to setActiveFilters
toggleFilterUpdater(prev, type) ==
    IF SetHas(prev, type)
    THEN IF Len(prev) > 1 THEN SetDelete(prev, type) ELSE prev
    ELSE SetAdd(prev, type)

InitFilter ==
    /\ calls = [c \in Calls |-> IdleCall]
    /\ store = [data |-> AbsentItem, ts |-> NoTimestamp]
    /\ pending = {}
    /\ now = T0
    /\ norm = NormIdle
    /\ screen = ScreenOff
    /\ filters = FiltersInit
    /\ download = DownloadIdle
    /\ chat = ChatInit

\* the gear button: setShowFilterMenu(!showFilterMenu)
ToggleFilterMenu ==
    /\ filters' = [filters EXCEPT !.showFilterMenu = ~@,
                                  !.op = "menu", !.arg = Null]
    /\ UNCHANGED << calls, store, pending, now, norm, screen, download, chat >>

\* a row of the open menu is pressed
toggleFilter(type) ==
    /\ filters.showFilterMenu
    /\ filters' = [filters EXCEPT
                     !.activeFilters = toggleFilterUpdater(@, type),
                     !.op = "toggleFilter", !.arg = type]
    /\ UNCHANGED << calls, store, pending, now, norm, screen, download, chat >>

\* the header of the open menu is pressed
toggleAllFilters ==
    /\ filters.showFilterMenu
    /\ filters' = [filters EXCEPT
                     !.activeFilters =
                        IF Len(@) = Len(allTypes) THEN << "hospital" >>
                        ELSE allTypes,
                     !.op = "toggleAllFilters", !.arg = Null]
    /\ UNCHANGED << calls, store, pending, now, norm, screen, download, chat >>

NextFilter ==
    \/ ToggleFilterMenu
    \/ \E i \in 1 .. Len(allTypes) : toggleFilter(allTypes[i])
    \/ toggleAllFilters

SpecFilter == InitFilter /\ [][NextFilter]_vars

\* ------------------------------------------- downloadModel (api/model.ts)
\* variant: the status of the download is not looked at
StatusOkAny(statusCode) == statusCode \in Nat

\* downloadResult.statusCode === 200
StatusOk(statusCode) == statusCode = 200

\* the catch block: every failure is thrown again, wrapped
DownloadThrows(message) ==
    [download EXCEPT !.pc = "thrown",
                     !.result = Throw("Failed to download model: " \o message)]

\* a fresh installation, or one where an earlier release left its model
InitDownload ==
    /\ calls = [c \in Calls |-> IdleCall]
    /\ store = [data |-> AbsentItem, ts |-> NoTimestamp]
    /\ pending = {}
    /\ now = T0
    /\ norm = NormIdle
    /\ screen = ScreenOff
    /\ filters = FiltersInit
    /\ chat = ChatInit
    /\ \E old \in BOOLEAN :
          download =
            IF old
            THEN [DownloadIdle EXCEPT !.destPath = "earlier",
                                      !.versionFile = EarlierVersion]
            ELSE DownloadIdle

\* downloadModel(modelName, modelUrl, onProgress) is called, the previous
\* call being over; `valid` is whether both strings are non-empty
downloadModel(valid) ==
    /\ download.pc \in {"idle", "done", "thrown"}
    /\ LET fresh == [download EXCEPT
                       !.hasVersion = FALSE, !.currentVersion = Null,
                       !.fileExists = FALSE, !.statusCode = 0,
                       !.result = NoResult, !.downloaded = FALSE]
       IN  download' =
             IF valid THEN [fresh EXCEPT !.pc = "mkdir"]
             ELSE [fresh EXCEPT
                     !.pc = "thrown",
                     !.result = Throw("Failed to download model: "
                                        \o "Invalid model name or URL")]
    /\ UNCHANGED << calls, store, pending, now, norm, screen, filters, chat >>

\* await RNFS.mkdir(modelDir)
Mkdir(ok) ==
    /\ download.pc = "mkdir"
    /\ download' = IF ok THEN [download EXCEPT !.pc = "existsVersion"]
                   ELSE DownloadThrows("mkdir failed")
    /\ UNCHANGED << calls, store, pending, now, norm, screen, filters, chat >>

\* await RNFS.exists(versionFile)
ExistsVersion ==
    /\ download.pc = "existsVersion"
    /\ LET has == download.versionFile # Undef
       IN  download' = [download EXCEPT
                          !.hasVersion = has,
                          !.pc = IF has THEN "readVersion" ELSE "existsFile"]
    /\ UNCHANGED << calls, store, pending, now, norm, screen, filters, chat >>

\* await RNFS.readFile(versionFile, 'utf8')
ReadVersion(ok) ==
    /\ download.pc = "readVersion"
    /\ download' =
         IF ok THEN [download EXCEPT !.currentVersion = download.versionFile,
                                     !.pc = "existsFile"]
         ELSE DownloadThrows("readFile failed")
    /\ UNCHANGED << calls, store, pending, now, norm, screen, filters, chat >>

\* await RNFS.exists(destPath), and the decision that follows it
ExistsFile ==
    /\ download.pc = "existsFile"
    /\ LET exists == download.destPath # "absent"
           seen == [download EXCEPT !.fileExists = exists]
       IN  download' =
             IF exists /\ download.currentVersion = MODEL_VERSION
             THEN [seen EXCEPT !.pc = "done", !.result = Ok("destPath")]
             ELSE IF exists THEN [seen EXCEPT !.pc = "unlink"]
             ELSE [seen EXCEPT !.pc = "download"]
    /\ UNCHANGED << calls, store, pending, now, norm, screen, filters, chat >>

\* await RNFS.unlink(destPath)
Unlink(ok) ==
    /\ download.pc = "unlink"
    /\ download' =
         IF ok THEN [download EXCEPT !.destPath = "absent", !.pc = "download"]
         ELSE DownloadThrows("unlink failed")
    /\ UNCHANGED << calls, store, pending, now, norm, screen, filters, chat >>

\* what RNFS.downloadFile can come to: a status with the body written to
\* destPath, or a rejection with what was received so far
DownloadOutcomes ==
    { [statusCode |-> 200, file |-> "complete"],
      [statusCode |-> 404, file |-> "body"],
      [statusCode |-> 0, file |-> "partial"],
      [statusCode |-> 0, file |-> "absent"] }

\* await RNFS.downloadFile({...}).promise, and the test of the status
DownloadFile(outcome) ==
    /\ download.pc = "download"
    /\ LET written ==
             [download EXCEPT
                !.destPath = IF outcome.file = "absent" THEN @
                             ELSE outcome.file,
                !.statusCode = outcome.statusCode,
                !.downloaded = TRUE,
                !.leftBehind = @ \/ outcome.file \in {"partial", "body"}]
       IN  download' =
             IF outcome.statusCode = 0
             THEN [written EXCEPT
                     !.pc = "thrown",
                     !.result = Throw("Failed to download model: "
                                        \o "Network request failed")]
             ELSE IF StatusOk(outcome.statusCode)
             THEN [written EXCEPT !.pc = "writeVersion"]
             ELSE [written EXCEPT
                     !.pc = "thrown",
                     !.result =
                        Throw("Failed to download model: "
                                \o "Download failed with status code: "
                                \o NumberInTemplate(outcome.statusCode))]
    /\ UNCHANGED << calls, store, pending, now, norm, screen, filters, chat >>

\* await RNFS.writeFile(versionFile, MODEL_VERSION, 'utf8')
WriteVersion(ok) ==
    /\ download.pc = "writeVersion"
    /\ download' =
         IF ok THEN [download EXCEPT !.versionFile = MODEL_VERSION,
                                     !.pc = "done", !.result = Ok("destPath")]
         ELSE DownloadThrows("writeFile failed")
    /\ UNCHANGED << calls, store, pending, now, norm, screen, filters, chat >>

NextDownload ==
    \/ \E valid \in BOOLEAN : downloadModel(valid)
    \/ \E ok \in BOOLEAN : Mkdir(ok)
    \/ ExistsVersion
    \/ \E ok \in BOOLEAN : ReadVersion(ok)
    \/ ExistsFile
    \/ \E ok \in BOOLEAN : Unlink(ok)
    \/ \E outcome \in DownloadOutcomes : DownloadFile(outcome)
    \/ \E ok \in BOOLEAN : WriteVersion(ok)

SpecDownload == InitDownload /\ [][NextDownload]_vars

\* ------------------------------------------- the RAG chat (ChatScreen)
\* what the user can have typed, and String.prototype.trim on it
UserInputs == {"my friend is bleeding", " what is the weather ", "   "}

Trim(text) ==
    CASE text = " what is the weather " -> "what is the weather"
      [] text = "   " -> ""
      [] text = " Apply pressure. " -> "Apply pressure."
      [] OTHER -> text

\* the standard rejection of a query unrelated to the knowledge base
REJECTION == "In case of any emergency, call 112!"

\* the best similarity score, in percent, below which the query is
\* rejected (bestScore < 0.6)
RejectBelow == 60

AppendEntry(conversation, role, content, turn) ==
    Append(conversation, [role |-> role, content |-> content, turn |-> turn])

InitChat ==
    /\ calls = [c \in Calls |-> IdleCall]
    /\ store = [data |-> AbsentItem, ts |-> NoTimestamp]
    /\ pending = {}
    /\ now = T0
    /\ norm = NormIdle
    /\ screen = ScreenOff
    /\ filters = FiltersInit
    /\ download = DownloadIdle
    /\ chat = ChatInit

\* loadEmbeddingModel, started in the background by loadModel, has set the
\* embedding context and the knowledge base
LoadEmbeddingModel ==
    /\ ~chat.rag
    /\ chat' = [chat EXCEPT !.rag = TRUE]
    /\ UNCHANGED << calls, store, pending, now, norm, screen, filters,
                    download >>

\* handleSendMessage with `userInput` typed, up to its first await: the
\* embedding of the query when RAG is available, the completion otherwise
handleSendMessage(h, userInput) ==
    /\ chat.sender[h].pc = "idle"
    /\ chat.sends < MaxSends
    /\ LET userMessage == Trim(userInput)
           turn == chat.sends + 1
       IN  chat' =
             IF userMessage = ""
             THEN [chat EXCEPT !.alert = "Input Error"]
             ELSE IF chat.rag
             THEN [chat EXCEPT
                     !.isGenerating = TRUE, !.alert = Null, !.sends = turn,
                     !.sender[h] = [pc |-> "embedding",
                                    userMessage |-> userMessage,
                                    turn |-> turn]]
             ELSE [chat EXCEPT
                     !.isGenerating = TRUE, !.alert = Null, !.sends = turn,
                     !.conversation =
                        AppendEntry(@, "user", userMessage, turn),
                     !.sender[h] = [pc |-> "completion",
                                    userMessage |-> userMessage,
                                    turn |-> turn]]
    /\ UNCHANGED << calls, store, pending, now, norm, screen, filters,
                    download >>

\* what the embedding step can come to: the embedding call or the check of
\* the vector throws (caught, RAG is skipped), the dimensions do not match
\* (RAG is skipped), or the best similarity score is known, in percent
EmbeddingOutcomes ==
    { [kind |-> "throw", score |-> 0], [kind |-> "mismatch", score |-> 0] }
    \cup { [kind |-> "score", score |-> p] : p \in {30, 60, 90} }

\* `await embeddingContext.embedding(userMessage)` settles; the handler runs
\* up to `await context.completion(...)`, or returns on the rejection path
EmbeddingSettles(h, outcome) ==
    /\ chat.sender[h].pc = "embedding"
    /\ chat' =
         IF outcome.kind = "score" /\ outcome.score < RejectBelow
         THEN [chat EXCEPT
                 !.conversation =
                    AppendEntry(@, "assistant", REJECTION,
                                chat.sender[h].turn),
                 !.isGenerating = FALSE,
                 !.sender[h] = SenderIdle]
         ELSE [chat EXCEPT
                 !.conversation =
                    AppendEntry(@, "user", chat.sender[h].userMessage,
                                chat.sender[h].turn),
                 !.sender[h].pc = "completion"]
    /\ UNCHANGED << calls, store, pending, now, norm, screen, filters,
                    download >>

\* what `await context.completion(...)` can come to: a result with text, a
\* result without text, or a rejection
CompletionOutcomes ==
    { [kind |-> "result", text |-> t] : t \in {" Apply pressure. ", ""} }
    \cup { [kind |-> "throw", text |-> ""] }

\* `await context.completion(...)` settles; the handler runs to its end
CompletionSettles(h, outcome) ==
    /\ chat.sender[h].pc = "completion"
    /\ chat' =
         IF outcome.kind = "result" /\ outcome.text # ""
         THEN [chat EXCEPT
                 !.conversation =
                    AppendEntry(@, "assistant", Trim(outcome.text),
                                chat.sender[h].turn),
                 !.isGenerating = FALSE,
                 !.sender[h] = SenderIdle]
         ELSE [chat EXCEPT
                 !.alert = "Error During Inference",
                 !.isGenerating = FALSE,
                 !.sender[h] = SenderIdle]
    /\ UNCHANGED << calls, store, pending, now, norm, screen, filters,
                    download >>

NextChat ==
    \/ LoadEmbeddingModel
    \/ \E h \in Senders, userInput \in UserInputs :
          handleSendMessage(h, userInput)
    \/ \E h \in Senders, outcome \in EmbeddingOutcomes :
          EmbeddingSettles(h, outcome)
    \/ \E h \in Senders, outcome \in CompletionOutcomes :
          CompletionSettles(h, outcome)

SpecChat == InitChat /\ [][NextChat]_vars

\* -------------------------------------------------------------- properties
Done(c) == calls[c].pc = "done"
IsGet(c) == calls[c].kind = "get"
IsRefresh(c) == calls[c].kind = "refresh"
FetchedSome(c) ==
    calls[c].fetch.state = "ok" /\ Len(calls[c].fetch.shelters) > 0
FetchedNone(c) ==
    calls[c].fetch.state = "ok" /\ Len(calls[c].fetch.shelters) = 0
FetchFailed(c) == calls[c].fetch.state = "err"
LoadedUsable(c) == ~calls[c].cached.isNull /\ Len(calls[c].cached.list) > 0
NonEmptyList(item) == item.kind = "json" /\ Len(item.items) > 0
OwnWrites(c, ws) == { w \in ws : w.live /\ w.call = c }

\* C1: getShelters and refreshShelters never reject: whatever the cache load,
\* the fetch and the cache save did, a call that is over has resolved to a
\* result whose source is api, cache or fallback.
C1_NeverThrows ==
    \A c \in Calls :
        /\ calls[c].result.state # "rejected"
        /\ Done(c) => /\ calls[c].result.state = "resolved"
                      /\ calls[c].result.source \in {"api", "cache", "fallback"}

\* a refresh over a corrupted cache whose fetch failed at every endpoint
C1_Witness ==
    \E c \in Calls :
        /\ Done(c) /\ IsRefresh(c) /\ FetchFailed(c)
        /\ store.data = CorruptItem
        /\ calls[c].result.source = "fallback"

\* C2: getShelters never returns an empty shelters list (the bundled fallback
\* has 5 entries).
C2_GetNeverEmpty ==
    /\ Len(FALLBACK_SHELTERS) = 5
    /\ \A c \in Calls :
          Done(c) /\ IsGet(c) => Len(calls[c].result.shelters) > 0

\* a get whose fetch failed with nothing usable in the cache
C2_Witness ==
    \E c \in Calls :
        /\ Done(c) /\ IsGet(c) /\ FetchFailed(c) /\ calls[c].cached.isNull
        /\ Len(calls[c].result.shelters) = 5

OwnStep(c) ==
    [calls[c] EXCEPT !.foreign = FALSE] # [calls'[c] EXCEPT !.foreign = FALSE]

\* C4: a call whose fetch succeeded with zero records leaves the cache as it
\* was: no step of the call changes the stored list or the stored timestamp,
\* and the call has no storage write in flight.
C4_EmptyFetchLeavesCache ==
    [][ \A c \in Calls :
          FetchedNone(c) =>
             /\ OwnStep(c) => store' = store
             /\ OwnWrites(c, pending') = {} ]_vars

\* a call over a saved non-empty cache whose fetch returned zero records
C4_Witness ==
    \E c \in Calls :
        /\ Done(c) /\ FetchedNone(c)
        /\ store.data = JSONStringify(OldShelters)
        /\ store.ts = Timestamp(T0 - 1000)
        /\ calls[c].result.source = "cache"

\* C5: only a non-empty list is ever handed to the store, and a durable cache
\* that holds a non-empty list keeps holding one unless clearShelterCache
\* removes it.
C5_NeverPersistEmpty ==
    [][ /\ \A w \in pending' :
             (w.op = "set" /\ w.key = STORAGE_KEY) => NonEmptyList(w.data)
        /\ NonEmptyList(store.data) =>
             \/ NonEmptyList(store'.data)
             \/ /\ store'.data = AbsentItem
                /\ UNCHANGED << calls, pending >> ]_vars

\* a second non-empty list has replaced the one the cache started with
C5_Witness ==
    /\ NonEmptyList(store.data)
    /\ store.data # JSONStringify(OldShelters)
    /\ \E c \in Calls : Done(c) /\ FetchedSome(c) /\ calls[c].landed = 2

\* C6 as stated: a fallback-tagged result is returned only when the fetch
\* failed and no cached data was found; no call whose fetch succeeded reaches
\* the bundled fallback.
C6_AsStated ==
    \A c \in Calls :
        (Done(c) /\ calls[c].result.source = "fallback") =>
            FetchFailed(c) /\ ~LoadedUsable(c)

\* C6 amended: a fallback-tagged result is returned only when the fetch
\* yielded no record (it failed at every endpoint, or it succeeded with zero
\* records) and the call's cache load yielded no non-empty list; a call whose
\* fetch brought at least one record never reaches the bundled fallback.
C6_FallbackOnlyWithoutData ==
    \A c \in Calls :
        (Done(c) /\ calls[c].result.source = "fallback") =>
            /\ FetchFailed(c) \/ FetchedNone(c)
            /\ ~LoadedUsable(c)
            /\ calls[c].nLoads = 1
            /\ calls[c].nSaves = 0

\* a call that reached the fallback although its fetch succeeded
C6_Witness ==
    \E c \in Calls :
        /\ Done(c) /\ calls[c].result.source = "fallback"
        /\ FetchedNone(c)
        /\ calls[c].result.shelters = FALLBACK_SHELTERS

\* C7: in getShelters, when the fetch yields no record and the cache loaded at
\* the start of the call is a non-empty list, the result is that list tagged
\* cache, with the note "API returned empty results, using cached data" after
\* a fetch of zero records and "API unavailable: <message>" after a failed
\* fetch.
C7_GetServesCache ==
    \A c \in Calls :
        (Done(c) /\ IsGet(c) /\ LoadedUsable(c)) =>
            /\ FetchedNone(c) =>
                 calls[c].result =
                    [state |-> "resolved", shelters |-> calls[c].cached.list,
                     source |-> "cache",
                     error |->
                        "API returned empty results, using cached data"]
            /\ FetchFailed(c) =>
                 calls[c].result =
                    [state |-> "resolved", shelters |-> calls[c].cached.list,
                     source |-> "cache",
                     error |-> "API unavailable: " \o calls[c].fetch.message]

\* a get over the saved list whose three endpoints all timed out
C7_Witness ==
    \E c \in Calls :
        /\ Done(c) /\ IsGet(c) /\ FetchFailed(c)
        /\ calls[c].cached = SomeList(OldShelters)
        /\ Len(calls[c].contacted) = 3
        /\ calls[c].result.error =
              "API unavailable: timeout of 30000ms exceeded"

\* C8: in getShelters, when the fetch yields no record and the cache load
\* gave no non-empty list, the result is exactly the 5-entry bundled list
\* tagged fallback with the note "No network connection and no cached data
\* available", and the call writes nothing to the cache.
C8_GetFallback ==
    \A c \in Calls :
        (Done(c) /\ IsGet(c) /\ ~LoadedUsable(c) /\ ~FetchedSome(c)) =>
            /\ calls[c].result =
                  [state |-> "resolved", shelters |-> FALLBACK_SHELTERS,
                   source |-> "fallback",
                   error |->
                     "No network connection and no cached data available"]
            /\ Len(calls[c].result.shelters) = 5
            /\ calls[c].nSaves = 0
            /\ OwnWrites(c, pending) = {}

\* a get over a corrupted cache whose fetch failed
C8_Witness ==
    \E c \in Calls :
        /\ Done(c) /\ IsGet(c) /\ FetchFailed(c)
        /\ store.data = CorruptItem
        /\ calls[c].cached.isNull
        /\ calls[c].result.source = "fallback"

\* C9: refreshShelters saves and returns api without loading the cache when
\* the fetch brought records; otherwise it loads the cache once, after the
\* fetch, and returns it tagged cache when it is a non-empty list (with a
\* note, which embeds the fetch error message when the fetch failed), else
\* the bundled list tagged fallback (embedding the fetch error message when
\* the fetch failed).
C9_RefreshPolicy ==
    \A c \in Calls :
        (Done(c) /\ IsRefresh(c)) =>
            /\ FetchedSome(c) =>
                 /\ calls[c].result.source = "api"
                 /\ calls[c].result.shelters = calls[c].fetch.shelters
                 /\ calls[c].nLoads = 0
                 /\ calls[c].nSaves = 1
            /\ ~FetchedSome(c) =>
                 /\ calls[c].nLoads = 1
                 /\ calls[c].nSaves = 0
                 /\ calls[c].result.error # Undef
                 /\ IF LoadedUsable(c)
                    THEN /\ calls[c].result.source = "cache"
                         /\ calls[c].result.shelters = calls[c].cached.list
                    ELSE /\ calls[c].result.source = "fallback"
                         /\ calls[c].result.shelters = FALLBACK_SHELTERS
            /\ FetchFailed(c) =>
                 calls[c].result.error =
                    "Refresh failed: " \o calls[c].fetch.message

\* a refresh whose fetch failed and that found nothing in the cache
C9_Witness ==
    \E c \in Calls :
        /\ Done(c) /\ IsRefresh(c) /\ FetchFailed(c)
        /\ store.data = AbsentItem
        /\ calls[c].result.source = "fallback"
        /\ calls[c].result.error = "Refresh failed: Network Error"

\* C10: the endpoints are contacted in priority order, one per attempt, and
\* none is contacted after the first one that answered with an elements
\* array, whatever the array holds.
C10_StopsAtFirstValid ==
    \A c \in Calls :
        /\ calls[c].contacted =
              SubSeq(OVERPASS_ENDPOINTS, 1, Len(calls[c].contacted))
        /\ calls[c].firstValid # 0 =>
              Len(calls[c].contacted) = calls[c].firstValid

\* ------------------------------------------------ endpoint failures (C11)
Fetching(c) == calls[c].pc = "fetch"
Fetched(c) == calls[c].pc = "fetched"
Last(q) == q[Len(q)]
Thrown(failed) == SelectSeq(failed, LAMBDA f : f # InvalidResponse)

\* C11 as stated: a fetch that failed carries the error of the last endpoint
\* failure observed, a response without an elements array counting as a
\* failure like a thrown error.
C11_AsStated ==
    \A c \in Calls :
        (Fetched(c) /\ FetchFailed(c)) =>
            calls[c].fetch.message = Last(calls[c].failures)

\* C11: a failed endpoint attempt (thrown error, or response without an
\* elements array) moves the fetch on to the next endpoint; the fetch fails
\* only after every endpoint failed, and then carries the last error that
\* an attempt threw, a response without an elements array leaving no error
\* behind: if no attempt threw, the error is the generic one.
C11_LastThrownError ==
    \A c \in Calls :
        /\ Fetching(c) =>
              /\ calls[c].fetch.state = "pending"
              /\ calls[c].ep = Len(calls[c].failures) + 1
        /\ (Fetched(c) /\ FetchFailed(c)) =>
              /\ Len(calls[c].failures) = Len(OVERPASS_ENDPOINTS)
              /\ calls[c].fetch.message =
                    IF Thrown(calls[c].failures) = << >>
                    THEN "All Overpass API endpoints failed"
                    ELSE Last(Thrown(calls[c].failures))

\* the first endpoint timed out and the two others answered without an
\* elements array: the fetch fails with the timeout
C11_Witness ==
    \E c \in Calls :
        /\ Fetched(c) /\ FetchFailed(c)
        /\ calls[c].failures = << "timeout of 30000ms exceeded",
                                  InvalidResponse, InvalidResponse >>
        /\ calls[c].fetch.message = "timeout of 30000ms exceeded"

\* ---------------------------------------------------- termination (C12)
InFlight(c) == calls[c].pc # "idle"
NoRepeat(q) == \A i, j \in 1 .. Len(q) : i # j => q[i] # q[j]

\* C12: with every awaited promise settling, a call that was started ends:
\* it is over again and again, it is only ever over with a resolved
\* result whose source is api, cache or fallback, and it leaves the flight
\* only from there; fetchFromAPI is invoked once in it (a finished call has
\* contacted at least one endpoint) and no endpoint is contacted twice in
\* one call.
C12_TerminatesOnePass ==
    /\ [](\A c \in Calls :
            /\ NoRepeat(calls[c].contacted)
            /\ Done(c) =>
                  /\ Len(calls[c].contacted) >= 1
                  /\ calls[c].fetch.state # "pending"
                  /\ calls[c].result.state = "resolved"
                  /\ calls[c].result.source \in {"api", "cache", "fallback"})
    /\ [][\A c \in Calls : (InFlight(c) /\ ~InFlight(c)') => Done(c)]_vars
    /\ \A c \in Calls : []<>(~InFlight(c) \/ Done(c))

\* a get whose fetch went through the three endpoints, all failing, and
\* that ended on the bundled list
C12_Witness ==
    \E c \in Calls :
        /\ Done(c) /\ IsGet(c) /\ FetchFailed(c)
        /\ calls[c].contacted = OVERPASS_ENDPOINTS
        /\ calls[c].result.source = "fallback"

\* -------------------------------------------------- coordinates (C13)
IsNumber(v) == v \notin {Undef, Null}
HasCoordinates(s) == IsNumber(s.lat) /\ IsNumber(s.lng)

\* the coordinates an element carries for its type: lat/lon of a node, the
\* centroid of a way or relation
CarriesCoordinates(e) ==
    /\ ~e.isNull
    /\ IF e.type = "node" THEN IsNumber(e.lat) /\ IsNumber(e.lon)
       ELSE /\ e.center.present
            /\ IsNumber(e.center.lat) /\ IsNumber(e.center.lon)

\* C13: every record the normalizer lets through, and every record then
\* saved and read back, has a latitude and a longitude that are numbers:
\* exactly the elements carrying both coordinates are kept.
C13_CoordinatesDefined ==
    /\ (norm.pc \in {"mapped", "saved", "reread"} /\ norm.result.ok) =>
          /\ \A i \in 1 .. Len(norm.result.val) :
                HasCoordinates(norm.result.val[i])
          /\ Len(norm.result.val) =
                Cardinality({ i \in 1 .. Len(norm.elements) :
                                CarriesCoordinates(norm.elements[i]) })
    /\ norm.pc = "reread" =>
          \A i \in 1 .. Len(norm.reread.list) :
              HasCoordinates(norm.reread.list[i])

\* ------------------------------------------------------------ ids (C14)
Kept(i) == ~norm.mapped[i].val.isNull
IdOf(i) == norm.mapped[i].val.shelter.id
FallbackIds == { FALLBACK_SHELTERS[k].id : k \in 1 .. Len(FALLBACK_SHELTERS) }

\* C14: among the elements of one array that the normalizer keeps, two get
\* the same record id exactly when they have the same type and the same
\* numeric id (whatever their coordinates and tags), and no record id is
\* the id of a bundled record.
C14_IdsStableDistinct ==
    norm.pc = "mapped" =>
        \A i, j \in 1 .. Len(norm.mapped) :
            (Kept(i) /\ Kept(j)) =>
                /\ IdOf(i) = IdOf(j) <=>
                      /\ norm.elements[i].type = norm.elements[j].type
                      /\ norm.elements[i].id = norm.elements[j].id
                /\ IdOf(i) \notin FallbackIds

\* a node and a way sharing the numeric id 42, both kept
C14_Witness ==
    /\ norm.pc = "mapped"
    /\ Len(norm.mapped) = 2
    /\ Kept(1) /\ Kept(2)
    /\ norm.elements[1].type = "node" /\ norm.elements[2].type = "way"
    /\ norm.elements[1].id = 42 /\ norm.elements[2].id = 42
    /\ IdOf(1) = "osm_node_42" /\ IdOf(2) = "osm_way_42"

\* ------------------------------------------- absent or corrupted cache (C15)
\* call c completes a loadFromCache in this step
LoadStep(c) ==
    /\ calls[c].pc \in {"load", "reload", "reloadCatch"}
    /\ calls'[c].nLoads = calls[c].nLoads + 1
Unwritten == store.data \in {AbsentItem, CorruptItem}

\* C15: a cache load that finds no payload or an unparseable payload hands
\* null to its caller and the call goes on (getShelters to its fetch,
\* refreshShelters to its return) without rejecting; a finished call that
\* loaded null has the result of a call without cache: the fetched records
\* tagged api when there are some, else the bundled list tagged fallback.
C15_CorruptIsAbsent ==
    /\ [][\A c \in Calls :
            (LoadStep(c) /\ Unwritten) =>
                /\ calls'[c].cached = NullList
                /\ calls'[c].pc \in {"fetch", "done"}
                /\ calls'[c].result.state # "rejected"]_vars
    /\ [](\A c \in Calls :
            (Done(c) /\ calls[c].cached.isNull) =>
                /\ calls[c].result.state = "resolved"
                /\ IF FetchedSome(c)
                   THEN /\ calls[c].result.source = "api"
                        /\ calls[c].result.shelters = calls[c].fetch.shelters
                   ELSE /\ calls[c].result.source = "fallback"
                        /\ calls[c].result.shelters = FALLBACK_SHELTERS)

\* a refresh whose fetch brought no record and whose load met a corrupted
\* payload
C15_Witness ==
    \E c \in Calls :
        /\ Done(c) /\ IsRefresh(c) /\ FetchedNone(c)
        /\ calls[c].nLoads = 1
        /\ store.data = CorruptItem
        /\ calls[c].cached.isNull
        /\ calls[c].result.source = "fallback"

\* ------------------------------------------------------ stale cache (C16)
\* the stored list is past the freshness window, or its age is unknown
Stale ==
    \/ ~store.ts.present
    \/ now - ParseInt(store.ts.digits) > CACHE_MAX_AGE

\* C16: a cache load changes nothing in the store and issues no storage
\* write; when it could read the store and the payload is a list, it hands
\* that list to its caller also when the list is older than 24 hours or
\* has no timestamp; a finished call whose fetch failed and whose load
\* brought a non-empty list returns that list tagged cache.
C16_StaleCacheServed ==
    /\ [][\A c \in Calls :
            LoadStep(c) =>
                /\ store' = store
                /\ pending' = pending
                /\ (Stale /\ store.data.kind = "json"
                       /\ ~calls'[c].readFailed) =>
                      calls'[c].cached = SomeList(JSONParse(store.data).val)
          ]_vars
    /\ [](\A c \in Calls :
            (Done(c) /\ FetchFailed(c) /\ LoadedUsable(c)) =>
                /\ calls[c].result.source = "cache"
                /\ calls[c].result.shelters = calls[c].cached.list)

\* a get whose fetch failed returns the list saved more than 24 hours ago
C16_Witness ==
    \E c \in Calls :
        /\ Done(c) /\ IsGet(c) /\ FetchFailed(c)
        /\ ~calls[c].readFailed
        /\ store.ts = Timestamp(T0 - 1000)
        /\ now = T0 + TickMs
        /\ Stale
        /\ calls[c].result.source = "cache"
        /\ calls[c].result.shelters = OldShelters

\* ----------------------------------------------------- atomic save (C17)
\* both setItem calls issued by the save of call c have settled
SaveWritesSettled(c) ==
    calls[c].pc = "saving" /\ OwnWrites(c, pending) = {}

\* C17: a save replaces the stored list and the stored timestamp together:
\* once its two storage writes have settled, both have taken effect or
\* neither has, also when one of them was rejected.
C17_SaveAtomic ==
    \A c \in Calls :
        SaveWritesSettled(c) => calls[c].landed \in {0, 2}

\* ---------------------------------------------------- racing saves (C18)
BothOver ==
    \A c \in DOMAIN calls : Done(c) /\ FetchedSome(c)
StoredList == JSONParse(store.data)
\* the durable list is the complete list call c fetched
HoldsListOf(c) ==
    StoredList.ok /\ StoredList.val = calls[c].fetch.shelters

AttemptStep(c) == Len(calls'[c].contacted) = Len(calls[c].contacted) + 1
SaveStep(c) == calls'[c].nSaves = calls[c].nSaves + 1
ReturnStep(c) == calls[c].pc # "done" /\ calls'[c].pc = "done"
FetchOver(c) == calls[c].fetch.state # "pending"

\* C19 as stated: a call loads at most once and saves at most once, its
\* load completes before its fetch starts, its fetch completes before its
\* save starts, and it returns only after its save settled.
C19_AsStated ==
    /\ [](\A c \in Calls : calls[c].nLoads <= 1 /\ calls[c].nSaves <= 1)
    /\ [][\A c \in Calls :
            /\ LoadStep(c) => calls[c].contacted = << >>
            /\ SaveStep(c) => FetchOver(c)
            /\ (ReturnStep(c) /\ calls[c].nSaves = 1) =>
                  calls[c].pc = "saving"]_vars

\* C19: a call loads at most once and saves at most once. getShelters
\* loads, then fetches, then saves; refreshShelters fetches first and then
\* either saves or loads, so its load comes after its fetch. No endpoint is
\* attempted after a save was issued, a save is issued only with the
\* fetched records at hand, and a call that saved returns only from the
\* await of its save, after both writes took effect or one was rejected.
C19_StepOrder ==
    /\ [](\A c \in Calls : calls[c].nLoads <= 1 /\ calls[c].nSaves <= 1)
    /\ [][\A c \in Calls :
            /\ LoadStep(c) =>
                  /\ calls[c].nSaves = 0
                  /\ IF IsGet(c) THEN calls[c].contacted = << >>
                     ELSE FetchOver(c)
            /\ AttemptStep(c) =>
                  /\ calls[c].nSaves = 0
                  /\ calls[c].nLoads = IF IsGet(c) THEN 1 ELSE 0
            /\ SaveStep(c) => FetchedSome(c)
            /\ (ReturnStep(c) /\ calls[c].nSaves = 1) =>
                  /\ calls[c].pc = "saving"
                  /\ calls[c].saveFailed \/ calls[c].landed = 2]_vars

\* a refresh that loaded the cache after its first endpoint answered
\* without records
C19_Witness ==
    \E c \in Calls :
        /\ Done(c) /\ IsRefresh(c) /\ FetchedNone(c)
        /\ Len(calls[c].contacted) = 1
        /\ calls[c].nLoads = 1 /\ calls[c].nSaves = 0
        /\ calls[c].result.source = "cache"

\* ------------------------------------------- one request at a time (C20)
CallsInFlight == { c \in DOMAIN calls : InFlight(c) }

\* C20: the map screen has at most one orchestrated call in flight, and
\* while it is mounted sheltersLoading is true from the start of a call
\* until the screen has taken its result.
C20_OneRequestAtATime ==
    /\ Cardinality(CallsInFlight) <= 1
    /\ (screen.mounted = "yes" /\ CallsInFlight # {}) =>
          screen.sheltersLoading

\* a manual refresh is fetching, after the on-mount load ended on the
\* bundled list
C20_Witness ==
    /\ screen.mounted = "yes"
    /\ screen.sheltersLoading
    /\ screen.sheltersSource = "fallback"
    /\ \E c \in DOMAIN calls :
          /\ IsRefresh(c)
          /\ calls[c].pc = "fetch"
          /\ Len(calls[c].contacted) = 1

\* ------------------------------------------ the normalizer throws (C21)
Normalized == norm.pc \in {"mapped", "saved", "reread"}

\* C21: the normalizer never throws: whatever the entries of the elements
\* array, mapping and filtering them yields a list of records.
C21_NormalizerNeverThrows ==
    Normalized => norm.result.ok

\* ------------------------------------------- coordinates by kind (C22)
NoNullEntry ==
    \A i \in 1 .. Len(norm.elements) : ~norm.elements[i].isNull
IsArea(e) == e.type \in {"way", "relation"}
KeptRecords ==
    LET kept == SelectSeq(norm.mapped, LAMBDA m : ~m.val.isNull)
    IN  [i \in 1 .. Len(kept) |-> kept[i].val.shelter]

\* C22: in an array of element objects, a node with lat and lon gives a
\* record with these two, whatever centroid it carries; a way or relation
\* with a centroid gives a record with the centroid, whatever lat and lon
\* it carries; every other element gives no record; no error is raised
\* and the records of the other elements are returned, in order.
C22_CoordinatesByKind ==
    (norm.pc = "mapped" /\ NoNullEntry) =>
        /\ norm.result.ok
        /\ Len(norm.mapped) = Len(norm.elements)
        /\ norm.result.val = KeptRecords
        /\ \A i \in 1 .. Len(norm.elements) :
              LET e == norm.elements[i]
                  r == norm.mapped[i].val.shelter
              IN  IF e.type = "node" /\ e.lat # Undef /\ e.lon # Undef
                  THEN Kept(i) /\ r.lat = e.lat /\ r.lng = e.lon
                  ELSE IF IsArea(e) /\ e.center.present
                  THEN Kept(i) /\ r.lat = e.center.lat
                       /\ r.lng = e.center.lon
                  ELSE ~Kept(i)

\* a node carrying lat/lon and a centroid, kept with its own lat/lon,
\* next to a way without centroid, which is left out
C22_Witness ==
    /\ norm.pc = "mapped"
    /\ Len(norm.elements) = 2
    /\ norm.elements[1].type = "node"
    /\ norm.elements[1].center.present
    /\ norm.elements[2].type = "way"
    /\ ~norm.elements[2].center.present
    /\ Len(norm.result.val) = 1
    /\ norm.result.val[1].lat = "45.75"
    /\ norm.result.val[1].lng = "21.22"

\* ----------------------------------------------------- categories (C23)
AmenityOf(e) == IF e.tags.present THEN e.tags.amenity ELSE Undef
RecordOf(i) == norm.mapped[i].val.shelter

\* C23 as stated: the category of every normalized record is one of
\* hospital, pharmacy, fire_station, police, shelter, unknown.
C23_AsStated ==
    norm.pc = "mapped" =>
        \A i \in 1 .. Len(norm.mapped) :
            Kept(i) =>
                RecordOf(i).type \in {"hospital", "pharmacy", "fire_station",
                                      "police", "shelter", "unknown"}

\* C23: the category of every normalized record is one of hospital,
\* pharmacy, fire, police, bunker, unknown: the amenities hospital,
\* pharmacy and police give the category of the same name, fire_station
\* gives fire, shelter gives bunker, and any other or missing amenity
\* gives unknown.
C23_CategoryMapping ==
    norm.pc = "mapped" =>
        \A i \in 1 .. Len(norm.mapped) :
            Kept(i) =>
                LET a == AmenityOf(norm.elements[i])
                    t == RecordOf(i).type
                IN  /\ t \in {"hospital", "pharmacy", "fire", "police",
                              "bunker", "unknown"}
                    /\ a \in {"hospital", "pharmacy", "police"} => t = a
                    /\ a = "fire_station" => t = "fire"
                    /\ a = "shelter" => t = "bunker"
                    /\ a \notin {"hospital", "pharmacy", "police",
                                  "fire_station", "shelter"} => t = "unknown"

\* a way tagged shelter next to a way tagged school
C23_Witness ==
    /\ norm.pc = "mapped"
    /\ Len(norm.mapped) = 2
    /\ Kept(1) /\ Kept(2)
    /\ AmenityOf(norm.elements[1]) = "shelter"
    /\ AmenityOf(norm.elements[2]) = "school"
    /\ RecordOf(1).type = "bunker"
    /\ RecordOf(2).type = "unknown"

\* --------------------------------------------------- display name (C24)
NameTagOf(e) == IF e.tags.present THEN e.tags.name ELSE Undef

\* the element of the example: way 42, centre (45.1, 21.2), a hospital
\* with the given name tag
CityHospitalWay(nameTag) ==
    MkElement("way", 42, Undef, Undef,
              [present |-> TRUE, lat |-> "45.1", lon |-> "21.2"],
              [present |-> TRUE, name |-> nameTag, amenity |-> "hospital",
               capacity |-> Undef])

\* C24: the display name of a normalized record is the element's name tag
\* verbatim when that tag is present and non-empty, and otherwise the
\* capitalized category, " #" and the element's numeric id in decimal
\* (absent tags, absent name and empty name alike); the way 42 with centre
\* (45.1, 21.2) tagged hospital and "City Hospital" normalizes to id
\* "osm_way_42", category hospital, those coordinates and that name.
C24_DisplayName ==
    norm.pc = "mapped" =>
        \A i \in 1 .. Len(norm.mapped) :
            Kept(i) =>
                LET e == norm.elements[i]
                    r == RecordOf(i)
                    tagged == NameTagOf(e) \notin {Undef, ""}
                IN  /\ tagged => r.name = NameTagOf(e)
                    /\ ~tagged =>
                          /\ r.name = Capitalize(r.type) \o " #"
                                        \o NumberInTemplate(e.id)
                          /\ r.name \in
                                { c \o " #" \o n :
                                    c \in {"Hospital", "Pharmacy", "Fire",
                                           "Police", "Bunker", "Unknown"},
                                    n \in {"7", "42"} }
                    /\ e = CityHospitalWay("City Hospital") =>
                          /\ r.id = "osm_way_42"
                          /\ r.type = "hospital"
                          /\ r.lat = "45.1" /\ r.lng = "21.2"
                          /\ r.name = "City Hospital"
                    /\ e = CityHospitalWay("") => r.name = "Hospital #42"

\* the example element next to the same way with an empty name tag
C24_Witness ==
    /\ norm.pc = "mapped"
    /\ Len(norm.mapped) = 2
    /\ norm.elements[1] = CityHospitalWay("City Hospital")
    /\ norm.elements[2] = CityHospitalWay("")
    /\ RecordOf(1).name = "City Hospital"
    /\ RecordOf(2).name = "Hospital #42"

\* ------------------------------------------------ active filters (C25)
FiveTypes == {"hospital", "pharmacy", "fire", "police", "bunker"}
ActiveSet == { filters.activeFilters[i] : i \in 1 .. Len(filters.activeFilters) }

\* what one handler makes of the set of active categories
FilterStep ==
    LET old == ActiveSet
        new == ActiveSet'
        t == filters'.arg
    IN  /\ filters'.op = "toggleFilter" =>
              new = IF t \notin old THEN old \cup {t}
                    ELSE IF old = {t} THEN old ELSE old \ {t}
        /\ filters'.op = "toggleAllFilters" =>
              new = IF old = FiveTypes THEN {"hospital"} ELSE FiveTypes
        /\ filters'.op = "menu" => new = old

\* C25: starting from all five categories active, after any sequence of
\* toggleFilter and toggleAllFilters at least one category is active:
\* toggleFilter adds an inactive category, removes an active one unless it
\* is the last, and toggleAllFilters gives {hospital} when all five are
\* active and all five otherwise.
C25_FiltersNeverEmpty ==
    /\ [](/\ ActiveSet # {}
          /\ ActiveSet \subseteq FiveTypes
          /\ Cardinality(ActiveSet) = Len(filters.activeFilters))
    /\ [][FilterStep]_vars

\* toggleFilter has just refused to remove the last active category
C25_Witness ==
    /\ filters.op = "toggleFilter"
    /\ filters.arg = "bunker"
    /\ filters.activeFilters = << "bunker" >>

\* ------------------------------------------------- downloadModel (C26)
ReturnedPath == download.pc = "done" /\ download.result = Ok("destPath")

\* what one step of a call does to the version marker and to a file whose
\* marker is missing or different
MarkerStep ==
    /\ download'.versionFile # download.versionFile =>
          /\ download.pc = "writeVersion"
          /\ download.statusCode = 200
          /\ download.destPath = "complete"
          /\ download'.versionFile = MODEL_VERSION
    /\ (download.pc = "existsFile" /\ download.destPath # "absent"
            /\ download.currentVersion # MODEL_VERSION) =>
          download'.pc = "unlink"
    /\ (download.pc = "unlink" /\ download'.pc # "thrown") =>
          /\ download'.pc = "download"
          /\ download'.destPath = "absent"

\* C26: over any sequence of downloadModel calls for one model, a call
\* that returns the path without downloading does so only when the file
\* exists and the recorded version is MODEL_VERSION, and that file was
\* written by a download that completed with status 200; the version
\* marker is written only after such a download, and a file whose marker
\* is missing or different is deleted before the download starts again.
C26_SkipOnlyCompleteModel ==
    /\ [](ReturnedPath =>
            /\ download.destPath = "complete"
            /\ download.versionFile = MODEL_VERSION
            /\ ~download.downloaded =>
                  /\ download.fileExists
                  /\ download.currentVersion = MODEL_VERSION)
    /\ [](download.pc = "download" => download.destPath = "absent")
    /\ [][MarkerStep]_vars

\* a call returns the path without downloading, after some download left
\* a partial file or an error body behind
C26_Witness ==
    /\ ReturnedPath
    /\ ~download.downloaded
    /\ download.leftBehind
    /\ download.destPath = "complete"

\* --------------------------------------------- error and source (C27)
ResultOf(c) == calls[c].result
Returned(c) == Done(c) /\ ResultOf(c).state = "resolved"

\* C27: in every result of get() and refresh() the error text is present
\* exactly when the source tag is not api: a result tagged api carries no
\* error, and a result tagged cache or fallback carries a non-empty
\* error string.
C27_ErrorIffNotApi ==
    \A c \in DOMAIN calls :
        Returned(c) =>
            /\ ResultOf(c).source \in {"api", "cache", "fallback"}
            /\ ResultOf(c).error # Undef <=> ResultOf(c).source # "api"
            /\ ResultOf(c).source # "api" =>
                  /\ ResultOf(c).error \notin {Undef, Null, ""}
                  /\ Len(ResultOf(c).error) > 0

\* a refresh that fetched nothing returns the cached list with its note
C27_Witness ==
    \E c \in DOMAIN calls :
        /\ Returned(c)
        /\ IsRefresh(c)
        /\ ResultOf(c).source = "cache"
        /\ ResultOf(c).error = "Refresh returned empty results"

\* -------------------------------------- get() against refresh() (C28)
\* what the decision policy gives for a cache content, a cache read that
\* worked or not, and a fetch outcome, whichever operation runs it
PolicyResult(st, readFailed, fetch) ==
    IF fetch.state = "ok" /\ Len(fetch.shelters) > 0
    THEN [shelters |-> fetch.shelters, source |-> "api"]
    ELSE LET cached == IF readFailed THEN NullList
                       ELSE LoadFromCache(st, TRUE, now).val
         IN  IF ~cached.isNull /\ Len(cached.list) > 0
             THEN [shelters |-> cached.list, source |-> "cache"]
             ELSE [shelters |-> FALLBACK_SHELTERS, source |-> "fallback"]

\* C28: run without any concurrent call, get() and refresh() return, for
\* the same durable cache content at the start of the call and the same
\* fetch outcome, the same list and the same source tag (the one the
\* decision policy gives for that content and that outcome), and a call
\* that fetched no record issues no storage write.
C28_GetRefreshEquivalent ==
    \A c \in DOMAIN calls :
        Returned(c) =>
            LET p == PolicyResult(calls[c].store0, calls[c].readFailed,
                                  calls[c].fetch)
            IN  /\ ResultOf(c).shelters = p.shelters
                /\ ResultOf(c).source = p.source
                /\ ~FetchedSome(c) => OwnWrites(c, pending) = {}

\* ------------------------------------ cache results under a race (C29)
ReturnsCached(c) ==
    /\ ReturnStep(c)
    /\ calls'[c].result.state = "resolved"
    /\ calls'[c].result.source = "cache"
DurableList(st) == JSONParse(st.data)

C30_AssistantFollowsUser ==
    \A i \in 1 .. Len(chat.conversation) :
        chat.conversation[i].role = "assistant" =>
            /\ i > 1
            /\ chat.conversation[i - 1].role = "user"
            /\ chat.conversation[i - 1].turn = chat.conversation[i].turn

====
